---- MODULE Spec2Model ----
(***************************************************************************)
(* confbundler: decoding of bundle manifests (adapters/yaml.py), the       *)
(* Bundle store and its merge (types/bundle.py), lazy resolution of        *)
(* bundled entries against the host (types/filesystem.py) and the tar      *)
(* encoder (override_generator/adapters/tar.py).                           *)
(*                                                                         *)
(* Text is a sequence of one-character strings, so that the decoder's      *)
(* character tests and pathlib's parsing are computed, not assumed.        *)
(***************************************************************************)
EXTENDS Integers, Sequences, FiniteSets, TLC

VARIABLES
    input,      \* the argument of the pure operation under study
    result,     \* what that operation returned ("none" before the call)
    objs,       \* the Bundle objects A, B, C of the merge study (heap)
    calls,      \* the __add__ calls made so far, as <<left, right>> pairs
    pc,         \* where __main__ stands
    bundle,     \* __main__'s cumulative Bundle
    nloaded,    \* how many manifests __main__ has loaded
    ndecoded,   \* how many elements those manifests held
    host,       \* the host filesystem: which names exist under each root
    sorted,     \* iter_files' sorted list (computed at the first next())
    pos,        \* index in sorted of the pair the generator is suspended on
    yielded,    \* the pair the generator last yielded, or NoPair
    handles,    \* content handles currently open
    archive,    \* archive headers emitted by write_out, in order
    trail,      \* every pair write_out has consumed, in order
    log         \* diagnostics printed or warned by the run, in order

vars == <<input, result, objs, calls, pc, bundle, nloaded, ndecoded, host, sorted,
          pos, yielded, handles, archive, trail, log>>

(***************************************************************************)
(* Bounds of the model.                                                    *)
(***************************************************************************)
MaxKeyLen == 3
MaxDocElems == 2
MaxBundles == 2
MaxElems == 3
MaxMergeElems == 1
MaxManifests == 3
MaxSeconds == 11

(***************************************************************************)
(* Text helpers.                                                           *)
(***************************************************************************)
Chars == {"*", ".", "/", "?", "[", "]", "a", "b"}

\* ASCII code points of the characters of the model (Python compares str by code point)
Ord(c) ==
    CASE c = "*" -> 42
      [] c = "." -> 46
      [] c = "/" -> 47
      [] c = "?" -> 63
      [] c = "[" -> 91
      [] c = "]" -> 93
      [] c = "a" -> 97
      [] c = "b" -> 98

Contains(s, c) == \E i \in 1..Len(s) : s[i] = c

StartsWithSlash(s) == Len(s) >= 1 /\ s[1] = "/"

RECURSIVE StrLess(_, _)
StrLess(s, t) ==
    IF t = <<>> THEN FALSE
    ELSE IF s = <<>> THEN TRUE
    ELSE IF s[1] = t[1] THEN StrLess(Tail(s), Tail(t))
    ELSE Ord(s[1]) < Ord(t[1])

\* str.split('/') restricted to what pathlib keeps: empty and '.' components are dropped
RECURSIVE SplitParts(_, _)
SplitParts(s, cur) ==
    LET flush == IF cur = <<>> \/ cur = <<".">> THEN <<>> ELSE <<cur>>
    IN  IF s = <<>> THEN flush
        ELSE IF s[1] = "/" THEN flush \o SplitParts(Tail(s), <<>>)
        ELSE SplitParts(Tail(s), Append(cur, s[1]))

\* posixpath.splitroot: exactly two leading slashes are kept, any other number is one
RootOf(s) ==
    IF ~StartsWithSlash(s) THEN 0
    ELSE IF Len(s) >= 2 /\ s[2] = "/" /\ ~(Len(s) >= 3 /\ s[3] = "/") THEN 2
    ELSE 1

\* PurePosixPath(value)
PurePosixPath(s) == [root |-> RootOf(s), parts |-> SplitParts(s, <<>>)]

IsAbsolute(p) == p.root > 0

RootPath == [root |-> 1, parts |-> <<>>]

\* PurePosixPath.__truediv__: an absolute right operand replaces the left one
JoinPath(p, q) == IF IsAbsolute(q) THEN q ELSE [root |-> p.root, parts |-> p.parts \o q.parts]

RECURSIVE PartsLess(_, _)
PartsLess(ps, qs) ==
    IF qs = <<>> THEN FALSE
    ELSE IF ps = <<>> THEN TRUE
    ELSE IF ps[1] = qs[1] THEN PartsLess(Tail(ps), Tail(qs))
    ELSE StrLess(ps[1], qs[1])

\* PurePosixPath.__lt__: lexicographic over the root and the components
PathLess(p, q) == p.root < q.root \/ (p.root = q.root /\ PartsLess(p.parts, q.parts))

(***************************************************************************)
(* Path identity parsing.                                                  *)
(***************************************************************************)
Warning(category, problem) == [category |-> category, problem |-> problem]

NotAbsoluteWarning == [category |-> "ConstructorWarning", problem |-> "path is not absolute"]

GlobCharsNoBracket == {"*", "?", "["}

GlobChars == {"*", "?", "[", "]"}

ParsePathNodeNoCoerce(value) ==
    IF \E c \in GlobChars : Contains(value, c)
    THEN [kind |-> "str", str |-> value, path |-> RootPath,
          warnings |-> IF ~StartsWithSlash(value) THEN <<NotAbsoluteWarning>> ELSE <<>>]
    ELSE [kind |-> "path", str |-> <<>>, path |-> PurePosixPath(value),
          warnings |-> IF ~IsAbsolute(PurePosixPath(value)) THEN <<NotAbsoluteWarning>> ELSE <<>>]

\* _parse_path_node: a str for a glob pattern, a PurePosixPath for a literal path
ParsePathNode(value) ==
    IF \E c \in GlobChars : Contains(value, c)
    THEN IF ~StartsWithSlash(value)
         THEN [kind |-> "str", str |-> <<"/">> \o value, path |-> RootPath,
               warnings |-> <<NotAbsoluteWarning>>]
         ELSE [kind |-> "str", str |-> value, path |-> RootPath, warnings |-> <<>>]
    ELSE LET path == PurePosixPath(value)
         IN  [kind |-> "path", str |-> <<>>, path |-> JoinPath(RootPath, path),
              warnings |-> IF ~IsAbsolute(path) THEN <<NotAbsoluteWarning>> ELSE <<>>]

(***************************************************************************)
(* Resource records.  A record is [type, props]: props holds exactly the   *)
(* keyword arguments the decoder passed to the type's constructor.         *)
(***************************************************************************)
EntryTypes == {"BundledEntry", "RemoteEntry", "File", "Directory", "Device",
               "SymbolicLink", "Pipe"}

\* issubclass(entry_type, _type) over the classes of types/filesystem.py
IsSubclass(t, base) == t = base \/ (base = "Entry" /\ t \in EntryTypes)

NoProps == [n \in {} |-> 0]

\* the tombstone: a class without fields
AbsentResource == [type |-> "AbsentResource", props |-> NoProps]

\* a location on the host: a directory (manifest root or declared source) and a position below it
HostPath(base, rel) == [base |-> base, rel |-> rel]

\* a decoded YAML value: tag is its Python type ("text" is a str kept as characters)
Raw(tag, val) == [tag |-> tag, val |-> val]

Ok(v) == [ok |-> TRUE, exc |-> "", val |-> v]

Raise(e) == [ok |-> FALSE, exc |-> e, val |-> 0]

\* what a ConstructorError carries: its problem, the value the problem text quotes,
\* and the node whose start_mark is its problem_mark ("" for None)
Detail(problem, subject, mark) == [problem |-> problem, subject |-> subject, mark |-> mark]

NoDetail == Detail("", "", "")

\* raise ConstructorError(problem=..., problem_mark=...)
ConstructorError(problem, subject, mark) ==
    [ok |-> FALSE, exc |-> "ConstructorError", val |-> Detail(problem, subject, mark)]

\* the exception's own attributes
DetailOf(raised) == IF raised.exc = "ConstructorError" THEN raised.val ELSE NoDetail

\* _bundled_source_fallback: the manifest root joined with the declared path
\* (relative_to('/') fails on a path rooted at '//'); the root itself for a pattern
BundledSourceFallback(root, index) ==
    IF index.kind = "path"
    THEN IF index.path.root = 1
         THEN Ok(Raw("hostpath", HostPath(root, index.path.parts)))
         ELSE Raise("ValueError")
    ELSE Ok(Raw("hostpath", HostPath(root, <<>>)))

\* lambda _, index: index (a PurePosixPath, a pattern or a name)
IndexFallback(index) ==
    IF index.kind = "path" THEN Ok(Raw("purepath", index.path))
    ELSE Ok(Raw("text", index.str))

\* the identity of a package or user: its name
NameIndex(name) == [kind |-> "name", str |-> name, path |-> RootPath]

\* prop.constructor(constructed) for each constructor named in the tables
ApplyConstructor(ctor, raw) ==
    CASE ctor = "Path" ->
            IF raw.tag = "hostpath" THEN Ok(raw.val)
            ELSE IF raw.tag = "str" THEN Ok(HostPath(raw.val, <<>>))
            ELSE Raise("TypeError")
      [] ctor = "PurePosixPath" ->
            IF raw.tag = "purepath" THEN Ok(raw.val)
            ELSE IF raw.tag = "text" THEN Ok(PurePosixPath(raw.val))
            ELSE Raise("TypeError")
      [] ctor = "BytesIO" ->
            IF raw.tag = "bytes" THEN Ok(raw.val) ELSE Raise("TypeError")
      [] ctor = "Device.Kind" ->
            IF raw.tag = "str" /\ raw.val \in {"b", "c"} THEN Ok(raw.val)
            ELSE IF raw.tag \in {"map", "list"} THEN Raise("TypeError")
            ELSE Raise("ValueError")
      [] ctor = "int" ->
            IF raw.tag = "int" THEN Ok(raw.val)
            ELSE IF raw.tag \in {"str", "text", "bytes"} THEN Raise("ValueError")
            ELSE Raise("TypeError")
      [] ctor \in {"User", "Group"} ->
            IF raw.tag \in {"str", "int"} THEN Ok([name |-> raw.val, id |-> 0])
            ELSE Raise("TypeError")
      [] ctor = "_parse_time" -> Raise("NotImplementedError")
      [] ctor = "dict" ->
            IF raw.tag = "map" THEN Ok(raw.val)
            ELSE IF raw.tag \in {"str", "text", "bytes"} THEN Raise("ValueError")
            ELSE Raise("TypeError")
      [] ctor = "str" -> Ok(raw.val)

Expected(name, constructor, required) ==
    [name |-> name, constructor |-> constructor, required |-> required]

EntryProperties ==
    << Expected("owner", "User", "False"),
       Expected("group", "Group", "False"),
       Expected("mode", "int", "False"),
       Expected("atime", "_parse_time", "False"),
       Expected("mtime", "_parse_time", "False"),
       Expected("xattrs", "dict", "False") >>

files_spec ==
    [default |-> "BundledEntry",
     states |-> [s \in {"from-host", "from-target", "file", "directory",
                        "character-device", "block-device", "symbolic-link",
                        "pipe", "absent"} |->
                    CASE s = "from-host" -> "BundledEntry"
                      [] s = "from-target" -> "RemoteEntry"
                      [] s = "file" -> "File"
                      [] s = "directory" -> "Directory"
                      [] s = "character-device" -> "Device"
                      [] s = "block-device" -> "Device"
                      [] s = "symbolic-link" -> "SymbolicLink"
                      [] s = "pipe" -> "Pipe"
                      [] s = "absent" -> "AbsentResource"],
     properties |->
        << <<"BundledEntry", <<Expected("source", "Path", "_bundled_source_fallback")>> >>,
           <<"RemoteEntry", <<Expected("source", "PurePosixPath", "index")>> >>,
           <<"File", <<Expected("content", "BytesIO", "True")>> >>,
           <<"Device", <<Expected("kind", "Device.Kind", "True"),
                         Expected("minor", "int", "True"),
                         Expected("major", "int", "True")>> >>,
           <<"Entry", EntryProperties>> >>]

packages_spec ==
    [default |-> "Package",
     states |-> [s \in {"installed", "absent"} |->
                    IF s = "installed" THEN "Package" ELSE "AbsentResource"],
     properties |-> << <<"Package", <<Expected("name", "str", "index")>> >> >>]

users_spec ==
    [default |-> "User",
     states |-> [s \in {"present", "absent"} |->
                    IF s = "present" THEN "User" ELSE "AbsentResource"],
     properties |-> << <<"User", <<Expected("name", "str", "index")>> >> >>]

(***************************************************************************)
(* Constructors of the record types (keyword arguments they take).         *)
(***************************************************************************)
EntryKeywords == {"owner", "group", "mode", "atime", "mtime", "xattrs"}

\* keyword parameters of type.__init__
AcceptedKeywords(type) ==
    CASE type \in {"BundledEntry", "RemoteEntry"} -> {"source"} \cup EntryKeywords
      [] type = "Device" -> {"kind", "devmajor", "devminor"} \cup EntryKeywords
      [] type = "File" -> {"content", "length", "no_auto_length"} \cup EntryKeywords
      [] type = "SymbolicLink" -> {"destination"} \cup EntryKeywords
      [] type \in {"Directory", "Pipe"} -> EntryKeywords
      [] type = "User" -> {"name", "id", "groups"}
      [] type = "Package" -> {"name"}
      [] type = "AbsentResource" -> {}

\* parameters of type.__init__ without a default
RequiredKeywords(type) ==
    CASE type = "BundledEntry" -> {"source"}
      [] type = "Device" -> {"kind", "devmajor", "devminor"}
      [] type = "File" -> {"content"}
      [] type = "SymbolicLink" -> {"destination"}
      [] type \in {"User", "Package"} -> {"name"}
      [] OTHER -> {}

\* entry_type(**props)
Instantiate(type, props) ==
    IF DOMAIN props \subseteq AcceptedKeywords(type)
       /\ RequiredKeywords(type) \subseteq DOMAIN props
    THEN Ok([type |-> type, props |-> props])
    ELSE Raise("TypeError")

(***************************************************************************)
(* The type-spec decoder.  An element node is [shape, key, props]: props   *)
(* maps the property names of its mapping to decoded values.               *)
(***************************************************************************)
UnrecognizedWarning ==
    [category |-> "ConstructorWarning", problem |-> "unrecognized property"]

\* the expected properties of every table row the type falls under, in table order
RECURSIVE ApplicableProps(_, _)
ApplicableProps(rows, type) ==
    IF rows = <<>> THEN <<>>
    ELSE (IF IsSubclass(type, Head(rows)[1]) THEN Head(rows)[2] ELSE <<>>)
         \o ApplicableProps(Tail(rows), type)

MissingRequiredUnmarked(prop, fallback_error_mark) ==
    ConstructorError("required property not found", prop.name, "")

\* raise ConstructorError(problem=f"required property `{prop.name}' not found",
\*                        problem_mark=fallback_error_mark)
MissingRequired(prop, fallback_error_mark) ==
    ConstructorError("required property not found", prop.name, fallback_error_mark)

\* the loop over expected properties of _construct: the first failure ends it
RECURSIVE ResolveProps(_, _, _, _, _, _)
ResolveProps(expected, nodeProps, index, root, fallback_error_mark, acc) ==
    IF expected = <<>> THEN Ok(acc)
    ELSE LET prop == Head(expected)
             present == prop.name \in DOMAIN nodeProps
             constructed ==
                IF present THEN Ok(nodeProps[prop.name])
                ELSE IF prop.required = "True" THEN MissingRequired(prop, fallback_error_mark)
                ELSE IF prop.required = "_bundled_source_fallback"
                     THEN BundledSourceFallback(root, index)
                ELSE IF prop.required = "index" THEN IndexFallback(index)
                ELSE Ok(0)
             skipped == ~present /\ prop.required = "False"
             built == IF constructed.ok /\ ~skipped
                      THEN ApplyConstructor(prop.constructor, constructed.val)
                      ELSE constructed
         IN  IF ~built.ok THEN built
             ELSE ResolveProps(Tail(expected), nodeProps, index, root, fallback_error_mark,
                               IF skipped THEN acc ELSE (prop.name :> built.val) @@ acc)

\* Loader._construct: [status, error, rec, warnings]; status is "ok" or the exception
\* raised, error what a ConstructorError carries
Construct(spec, nodeProps, index, root, fallback_error_mark) ==
    LET hasState == "state" \in DOMAIN nodeProps
        state == nodeProps["state"]
        failed(raised) == [status |-> raised.exc, error |-> DetailOf(raised),
                           rec |-> AbsentResource, warnings |-> <<>>]
        Finish(made, leftover) ==
            [status |-> IF made.ok THEN "ok" ELSE made.exc,
             error |-> NoDetail,
             rec |-> IF made.ok THEN made.val ELSE AbsentResource,
             warnings |-> [i \in 1..Cardinality(leftover) |-> UnrecognizedWarning]]
        Validate(entry_type, expected) ==
            LET Built(props) ==
                    IF ~props.ok THEN failed(props)
                    ELSE Finish(Instantiate(entry_type, props.val),
                                (DOMAIN nodeProps \ {"state"})
                                    \ {expected[i].name : i \in DOMAIN expected})
            IN  Built(ResolveProps(expected, nodeProps, index, root, fallback_error_mark,
                                   NoProps))
        Typed(entry_type) == Validate(entry_type, ApplicableProps(spec.properties, entry_type))
    IN  IF hasState /\ state.tag # "str"
        THEN failed(ConstructorError("expected a string", "", "state"))
        ELSE IF hasState /\ state.val \notin DOMAIN spec.states
        THEN failed(ConstructorError("unsupported state", state.val, "state"))
        ELSE Typed(IF hasState THEN spec.states[state.val] ELSE spec.default)

\* _unpack_node: the properties under the key; a node that is neither a scalar nor
\* a mapping whose first pair is scalar: mapping raises ConstructorError
UnpackNode(node) ==
    IF node.shape = "scalar" THEN Ok(NoProps)
    ELSE IF node.shape = "mapping" THEN Ok(node.props)
    ELSE ConstructorError("expected a scalar or a mapping", node.shape, "element")

\* Loader.construct_file: [status, error, id, rec, warnings]; the element node's
\* start_mark is the fallback mark of _construct
ConstructFile(node, root) ==
    LET Decode(unpacked, path) ==
            LET id == [kind |-> path.kind, str |-> path.str, path |-> path.path]
                Done(made) == [status |-> made.status, error |-> made.error, id |-> id,
                               rec |-> made.rec,
                               warnings |-> path.warnings \o made.warnings]
            IN  Done(Construct(files_spec, unpacked.val, id, root, "element"))
        Unpacked(unpacked) ==
            IF ~unpacked.ok
            THEN [status |-> unpacked.exc, error |-> DetailOf(unpacked),
                  id |-> NameIndex(<<>>), rec |-> AbsentResource, warnings |-> <<>>]
            ELSE Decode(unpacked, ParsePathNode(node.key))
    IN  Unpacked(UnpackNode(node))

\* Loader.construct_package and Loader.construct_user
ConstructNamed(spec, node, root) ==
    LET Done(made) == [status |-> made.status, error |-> made.error,
                       id |-> NameIndex(node.key), rec |-> made.rec,
                       warnings |-> made.warnings]
        Unpacked(unpacked) ==
            IF ~unpacked.ok
            THEN [status |-> unpacked.exc, error |-> DetailOf(unpacked),
                  id |-> NameIndex(<<>>), rec |-> AbsentResource, warnings |-> <<>>]
            ELSE Done(Construct(spec, unpacked.val, NameIndex(node.key), root, "element"))
    IN  Unpacked(UnpackNode(node))

(***************************************************************************)
(* The Bundle store.  A dict is the sequence of its items in insertion     *)
(* order, each [k, v]; a key occurs at most once.                          *)
(***************************************************************************)
HasKey(d, k) == \E i \in DOMAIN d : d[i].k = k

Lookup(d, k) == d[CHOOSE i \in DOMAIN d : d[i].k = k].v

Keys(d) == {d[i].k : i \in DOMAIN d}

DictSetKeepOld(d, k, v) ==
    IF HasKey(d, k) THEN d ELSE Append(d, [k |-> k, v |-> v])

DictSetMoveToEnd(d, k, v) ==
    Append(SelectSeq(d, LAMBDA item : item.k # k), [k |-> k, v |-> v])

\* d[k] = v: a present key keeps its position and takes the new value
DictSet(d, k, v) ==
    IF HasKey(d, k)
    THEN [i \in DOMAIN d |-> IF d[i].k = k THEN [k |-> k, v |-> v] ELSE d[i]]
    ELSE Append(d, [k |-> k, v |-> v])

\* dict.update(other)
RECURSIVE DictUpdate(_, _)
DictUpdate(d, other) ==
    IF other = <<>> THEN d
    ELSE DictUpdate(DictSet(d, Head(other).k, Head(other).v), Tail(other))

\* Bundle(): five empty mappings
EmptyBundle ==
    [files |-> <<>>, bundled_globs |-> <<>>, remote_globs |-> <<>>,
     packages |-> <<>>, users |-> <<>>]

Mappings == {"files", "bundled_globs", "remote_globs", "packages", "users"}

\* Bundle.__add__: the value self holds when the call returns
Add(self, other) ==
    [files |-> DictUpdate(self.files, other.files),
     bundled_globs |-> DictUpdate(self.bundled_globs, other.bundled_globs),
     remote_globs |-> DictUpdate(self.remote_globs, other.remote_globs),
     packages |-> DictUpdate(self.packages, other.packages),
     users |-> DictUpdate(self.users, other.users)]

(***************************************************************************)
(* Bundle document assembly.  A document is the sequence of its top-level  *)
(* pairs [keyScalar, key, isSeq, items].                                   *)
(***************************************************************************)
RouteFileGlobsTogether(b, id, rec) ==
    IF id.kind = "path"
    THEN [bundle |-> [b EXCEPT !.files = DictSet(@, id.path, rec)], warnings |-> <<>>]
    ELSE IF rec.type \in {"RemoteEntry", "BundledEntry"}
    THEN [bundle |-> [b EXCEPT !.bundled_globs = DictSet(@, id.str, rec)], warnings |-> <<>>]
    ELSE [bundle |-> b,
          warnings |-> <<[category |-> "FileOmittedWarning",
                          problem |-> "globbing with literal files is not supported yet"]>>]

\* the routing of one decoded files pair (yaml.py, construct_bundle)
RouteFile(b, id, rec) ==
    IF id.kind = "path"
    THEN [bundle |-> [b EXCEPT !.files = DictSet(@, id.path, rec)], warnings |-> <<>>]
    ELSE IF rec.type = "RemoteEntry"
    THEN [bundle |-> [b EXCEPT !.remote_globs = DictSet(@, id.str, rec)], warnings |-> <<>>]
    ELSE IF rec.type = "BundledEntry"
    THEN [bundle |-> [b EXCEPT !.bundled_globs = DictSet(@, id.str, rec)], warnings |-> <<>>]
    ELSE [bundle |-> b,
          warnings |-> <<[category |-> "FileOmittedWarning",
                          problem |-> "globbing with literal files is not supported yet"]>>]

\* `except ConstructorError`: the only exception the element loops catch
Caught(exc) == exc = "ConstructorError"

\* construct_file, construct_package or construct_user, by section
ConstructItem(key, node, root) ==
    IF key = "files" THEN ConstructFile(node, root)
    ELSE IF key = "packages" THEN ConstructNamed(packages_spec, node, root)
    ELSE ConstructNamed(users_spec, node, root)

\* where a decoded pair of the section goes: [bundle, warnings]
Route(key, b, id, rec) ==
    IF key = "files" THEN RouteFile(b, id, rec)
    ELSE IF key = "packages"
    THEN [bundle |-> [b EXCEPT !.packages = DictSet(@, id.str, rec)], warnings |-> <<>>]
    ELSE [bundle |-> [b EXCEPT !.users = DictSet(@, id.str, rec)], warnings |-> <<>>]

\* one of the three element loops: [exc, bundle, warnings], exc "" when the loop ends
RECURSIVE ProcessItems(_, _, _, _, _)
ProcessItems(key, items, root, b, warnings) ==
    IF items = <<>> THEN [exc |-> "", bundle |-> b, warnings |-> warnings]
    ELSE LET FromError(error) ==
                [category |-> IF key = "files" THEN "FileOmittedWarning"
                              ELSE "ConstructorWarning",
                 problem |-> error.problem, subject |-> error.subject, mark |-> error.mark]
             Step(made) ==
                IF made.status = "ok"
                THEN LET Put(routed) ==
                            ProcessItems(key, Tail(items), root, routed.bundle,
                                         warnings \o made.warnings \o routed.warnings)
                     IN  Put(Route(key, b, made.id, made.rec))
                ELSE IF Caught(made.status)
                THEN ProcessItems(key, Tail(items), root, b,
                                  warnings \o made.warnings \o <<FromError(made.error)>>)
                ELSE [exc |-> made.status, bundle |-> b,
                      warnings |-> warnings \o made.warnings]
         IN  Step(ConstructItem(key, Head(items), root))

\* Loader.construct_bundle: [exc, bundle, warnings]; exc is "" when a Bundle is returned
RECURSIVE ConstructBundle(_, _, _, _)
ConstructBundle(doc, root, b, warnings) ==
    IF doc = <<>> THEN [exc |-> "", bundle |-> b, warnings |-> warnings]
    ELSE LET pair == Head(doc)
             problem == IF ~pair.keyScalar THEN "expected a scalar"
                        ELSE IF ~pair.isSeq THEN "expected a sequence"
                        ELSE IF pair.key \notin {"files", "packages", "users"}
                             THEN "unrecognized key"
                        ELSE ""
             Continue(done) ==
                IF done.exc # "" THEN done
                ELSE ConstructBundle(Tail(doc), root, done.bundle, done.warnings)
         IN  IF problem # ""
             THEN Continue([exc |-> "", bundle |-> b,
                            warnings |-> Append(warnings, Warning("ConstructorWarning", problem))])
             ELSE Continue(ProcessItems(pair.key, pair.items, root, b, warnings))

\* load(path) for a manifest of one document
Load(doc, root) == ConstructBundle(doc, root, EmptyBundle, <<>>)

(***************************************************************************)
(* Inputs of the model: keys, element nodes, documents.                    *)
(***************************************************************************)
RECURSIVE SeqsUpTo(_, _)
SeqsUpTo(S, n) ==
    IF n = 0 THEN {<<>>}
    ELSE LET shorter == SeqsUpTo(S, n - 1)
         IN  shorter \cup {Append(q, x) : q \in {r \in shorter : Len(r) = n - 1}, x \in S}

Scalar(key) == [shape |-> "scalar", key |-> key, props |-> NoProps]

Mapping(key, props) == [shape |-> "mapping", key |-> key, props |-> props]

State(s) == "state" :> Raw("str", s)

\* a top-level pair holding a one-element sequence, and the malformed top-level pairs
Item(key, node) == [keyScalar |-> TRUE, key |-> key, isSeq |-> TRUE, items |-> <<node>>]

NotASequence == [keyScalar |-> TRUE, key |-> "files", isSeq |-> FALSE, items |-> <<>>]

UnknownSection == [keyScalar |-> TRUE, key |-> "extras", isSeq |-> TRUE, items |-> <<>>]

NonScalarKey == [keyScalar |-> FALSE, key |-> "", isSeq |-> TRUE, items |-> <<>>]

\* a document from its elements in order: neighbours of one section share its sequence
RECURSIVE ToDoc(_)
ToDoc(flat) ==
    IF flat = <<>> THEN <<>>
    ELSE LET rest == ToDoc(Tail(flat))
             h == Head(flat)
         IN  IF h.keyScalar /\ h.isSeq /\ rest # <<>> /\ rest[1].keyScalar /\ rest[1].isSeq
                /\ rest[1].key = h.key
             THEN <<[rest[1] EXCEPT !.items = h.items \o @]>> \o Tail(rest)
             ELSE <<h>> \o rest

KeyA == <<"/", "a">>

KeyRelA == <<"a">>

KeyB == <<"/", "b">>

KeyStar == <<"/", "*">>

KeyRelStar == <<"*">>

KeyQuery == <<"/", "?">>

\* the shapes a files element takes, malformed ones included
FileVariants(key) ==
    { Scalar(key),
      Mapping(key, NoProps),
      Mapping(key, State("from-host") @@ ("mode" :> Raw("int", 420))),
      Mapping(key, State("from-target")),
      Mapping(key, State("directory")),
      Mapping(key, State("absent")),
      Mapping(key, State("file")),
      Mapping(key, State("file") @@ ("content" :> Raw("bytes", "hi"))),
      Mapping(key, State("nonsense")),
      Mapping(key, State("directory") @@ ("mode" :> Raw("str", "rwx"))),
      Mapping(key, State("directory") @@ ("atime" :> Raw("int", 1))),
      Mapping(key, State("directory") @@ ("colour" :> Raw("str", "red"))),
      Mapping(key, State("block-device") @@ ("kind" :> Raw("str", "b"))
                   @@ ("minor" :> Raw("int", 1)) @@ ("major" :> Raw("int", 8))),
      Mapping(key, State("character-device") @@ ("kind" :> Raw("str", "c"))),
      [shape |-> "sequence", key |-> key, props |-> NoProps] }

NamedVariants(key) ==
    { Scalar(key), Mapping(key, State("absent")), Mapping(key, State("nonsense")) }

DecodeItems ==
    {Item("files", n) : n \in UNION {FileVariants(k) : k \in {KeyA, KeyRelA, KeyStar}}}
    \cup {Item("packages", n) : n \in NamedVariants(KeyRelA)}
    \cup {Item("users", n) : n \in NamedVariants(KeyRelA)}
    \cup {NotASequence, UnknownSection, NonScalarKey}

DecodeDocs == {ToDoc(f) : f \in SeqsUpTo(DecodeItems, MaxDocElems)}

PathKeys == SeqsUpTo(Chars, MaxKeyLen)

(***************************************************************************)
(* The host filesystem and glob expansion.  host maps each manifest root   *)
(* to the positions that exist below it.                                   *)
(***************************************************************************)
NameA == <<"a">>

NameB == <<"b">>

HostPositions == { <<NameA>>, <<NameB>> }

Roots == 1..(IF MaxBundles > MaxManifests THEN MaxBundles ELSE MaxManifests)

Hosts == {[r \in Roots |-> S] : S \in SUBSET HostPositions}

NodeKinds == {"reg", "blk", "chr", "dir", "fifo", "lnk", "sock"}

\* str.lstrip('/')
RECURSIVE LStripSlash(_)
LStripSlash(s) == IF StartsWithSlash(s) THEN LStripSlash(Tail(s)) ELSE s

\* fnmatch of one component; the patterns of the model hold no bracket expression
RECURSIVE FnMatch(_, _)
FnMatch(name, pat) ==
    IF pat = <<>> THEN name = <<>>
    ELSE IF pat[1] = "*"
         THEN FnMatch(name, Tail(pat)) \/ (name # <<>> /\ FnMatch(Tail(name), pat))
    ELSE IF pat[1] = "?" THEN name # <<>> /\ FnMatch(Tail(name), Tail(pat))
    ELSE name # <<>> /\ name[1] = pat[1] /\ FnMatch(Tail(name), Tail(pat))

\* source.glob(pattern): the existing positions below source matching component by component
Glob(h, source, pattern) ==
    LET pat == SplitParts(pattern, <<>>)
        n == Len(source.rel)
    IN  IF source.base \notin DOMAIN h THEN {}
        ELSE { p \in h[source.base] :
                 /\ Len(p) = n + Len(pat)
                 /\ SubSeq(p, 1, n) = source.rel
                 /\ \A i \in 1..Len(pat) : FnMatch(p[n + i], pat[i]) }

\* the attributes of an entry that are fields of Entry (what the template hands on)
Metadata(entry) == [n \in DOMAIN entry.props \cap EntryKeywords |-> entry.props[n]]

RECURSIVE InsertSortedUnstable(_, _)
InsertSortedUnstable(s, x) ==
    IF s = <<>> THEN <<x>>
    ELSE IF ~PathLess(Head(s).path, x.path) THEN <<x>> \o s
    ELSE <<Head(s)>> \o InsertSortedUnstable(Tail(s), x)

RECURSIVE InsertSorted(_, _)
InsertSorted(s, x) ==
    IF s = <<>> THEN <<x>>
    ELSE IF PathLess(x.path, Head(s).path) THEN <<x>> \o s
    ELSE <<Head(s)>> \o InsertSorted(Tail(s), x)

\* sorted(iterable, key=path): stable, equal paths keep their order
RECURSIVE Sorted(_)
Sorted(s) == IF s = <<>> THEN <<>> ELSE InsertSorted(Sorted(SubSeq(s, 1, Len(s) - 1)), s[Len(s)])

RECURSIVE SetToSorted(_)
SetToSorted(S) ==
    IF S = {} THEN <<>>
    ELSE LET m == CHOOSE x \in S : \A y \in S \ {x} : PartsLess(x, y)
         IN  <<m>> \o SetToSorted(S \ {m})

\* the pairs one glob item yields: a path re-rooted at '/', a BundledEntry on the match
ExpandGlob(h, glob, entry) ==
    LET source == entry.props["source"]
        matches == SetToSorted(Glob(h, source, LStripSlash(glob)))
    IN  [i \in DOMAIN matches |->
            [path |-> JoinPath(RootPath,
                               [root |-> 0,
                                parts |-> SubSeq(matches[i], Len(source.rel) + 1, Len(matches[i]))]),
             file |-> [type |-> "BundledEntry",
                       props |-> ("source" :> HostPath(source.base, matches[i]))
                                 @@ Metadata(entry)]]]

\* _resolve_globs: every glob item in dict order
RECURSIVE ResolveGlobs(_, _)
ResolveGlobs(h, globs) ==
    IF globs = <<>> THEN <<>>
    ELSE ExpandGlob(h, Head(globs).k, Head(globs).v) \o ResolveGlobs(h, Tail(globs))

FileItems(b) == [i \in DOMAIN b.files |-> [path |-> b.files[i].k, file |-> b.files[i].v]]

ChainRemoteGlobsToo(h, b) ==
    FileItems(b) \o ResolveGlobs(h, b.bundled_globs)
        \o ResolveGlobs(h, [i \in DOMAIN b.remote_globs |->
                              [k |-> b.remote_globs[i].k,
                               v |-> [type |-> "BundledEntry",
                                      props |-> "source" :> HostPath(1, <<>>)]]])

ChainGlobsFirst(h, b) == ResolveGlobs(h, b.bundled_globs) \o FileItems(b)

\* chain(self.files.items(), _resolve_globs(self.bundled_globs))
Chain(h, b) == FileItems(b) \o ResolveGlobs(h, b.bundled_globs)

NextAny(s, last) == IF last < Len(s) THEN last + 1 ELSE 0

\* uniq: the next pair whose path differs from the last one yielded (0: exhausted)
NextDistinct(s, last) ==
    LET later == {j \in DOMAIN s : j > last /\ s[j].path # s[last].path}
    IN  IF later = {} THEN 0 ELSE CHOOSE j \in later : \A k \in later : j <= k

\* the whole uniq'd sequence of pairs iter_files walks
RECURSIVE UniqFrom(_, _)
UniqFrom(s, last) ==
    LET j == NextDistinct(s, last)
    IN  IF j = 0 THEN <<>> ELSE <<s[j]>> \o UniqFrom(s, j)

(***************************************************************************)
(* Lazy resolution of a BundledEntry (types/filesystem.py).                *)
(***************************************************************************)
StatTime == <<1, 5>>

EnterCharAsBlock(entry, kind) ==
    LET metadata == Metadata(entry) @@ ("atime" :> StatTime) @@ ("mtime" :> StatTime)
    IN  IF kind \in {"blk", "chr"}
        THEN Ok([type |-> "Device",
                 props |-> ("kind" :> "b") @@ ("devmajor" :> 8) @@ ("devminor" :> 1)
                           @@ metadata])
        ELSE IF kind = "dir" THEN Ok([type |-> "Directory", props |-> metadata])
        ELSE IF kind = "fifo" THEN Ok([type |-> "Pipe", props |-> metadata])
        ELSE IF kind = "reg"
        THEN Ok([type |-> "File",
                 props |-> ("content" :> entry.props["source"]) @@ ("length" :> 2) @@ metadata])
        ELSE IF kind = "lnk"
        THEN Ok([type |-> "SymbolicLink",
                 props |-> ("destination" :> PurePosixPath(KeyB)) @@ metadata])
        ELSE Raise("TypeError")

EnterStatTimesWin(entry, kind) ==
    LET metadata == ("atime" :> StatTime) @@ ("mtime" :> StatTime) @@ Metadata(entry)
    IN  IF kind = "dir" THEN Ok([type |-> "Directory", props |-> metadata])
        ELSE IF kind = "fifo" THEN Ok([type |-> "Pipe", props |-> metadata])
        ELSE IF kind = "reg"
        THEN Ok([type |-> "File",
                 props |-> ("content" :> entry.props["source"]) @@ ("length" :> 2) @@ metadata])
        ELSE Raise("TypeError")

\* BundledEntry.__enter__ for the node kind lstat reports
Enter(entry, kind) ==
    LET declared == Metadata(entry)
        metadata == declared
                    @@ ("atime" :> StatTime) @@ ("mtime" :> StatTime)
        source == entry.props["source"]
    IN  CASE kind = "reg" ->
                Ok([type |-> "File",
                    props |-> ("content" :> source) @@ ("length" :> 2) @@ metadata])
          [] kind = "blk" ->
                Ok([type |-> "Device",
                    props |-> ("kind" :> "b") @@ ("devmajor" :> 8) @@ ("devminor" :> 1)
                              @@ metadata])
          [] kind = "chr" ->
                Ok([type |-> "Device",
                    props |-> ("kind" :> "c") @@ ("devmajor" :> 8) @@ ("devminor" :> 1)
                              @@ metadata])
          [] kind = "dir" -> Ok([type |-> "Directory", props |-> metadata])
          [] kind = "fifo" -> Ok([type |-> "Pipe", props |-> metadata])
          [] kind = "lnk" ->
                Ok([type |-> "SymbolicLink",
                    props |-> ("destination" :> PurePosixPath(KeyB)) @@ metadata])
          [] kind = "missing" -> Raise("FileNotFoundError")
          [] OTHER -> Raise("TypeError")

(***************************************************************************)
(* States shared by the studies of the pure operations: __main__ idle.     *)
(***************************************************************************)
NoPair == [path |-> RootPath, file |-> [type |-> "None", props |-> NoProps]]

NoHost == [r \in {} |-> {}]

NotCalled == [called |-> FALSE, val |-> 0]

Returned(v) == [called |-> TRUE, val |-> v]

MainIdle ==
    /\ pc = "idle" /\ bundle = EmptyBundle /\ nloaded = 0 /\ ndecoded = 0 /\ host = NoHost
    /\ sorted = <<>> /\ pos = 0 /\ yielded = NoPair /\ handles = {}
    /\ archive = <<>> /\ trail = <<>> /\ log = <<>>

mainVars == <<pc, bundle, nloaded, ndecoded, host, sorted, pos, yielded, handles, archive, trail, log>>

(***************************************************************************)
(* Study of _parse_path_node: one key, one call.                           *)
(***************************************************************************)
InitPath ==
    /\ input \in PathKeys /\ result = NotCalled
    /\ objs = <<>> /\ calls = <<>> /\ MainIdle

ParsePath ==
    /\ ~result.called
    /\ result' = Returned(ParsePathNode(input))
    /\ UNCHANGED <<input, objs, calls, mainVars>>

NextPath == ParsePath

SpecPath == InitPath /\ [][NextPath]_vars

(***************************************************************************)
(* Study of load: one document, one call.                                  *)
(***************************************************************************)
InitDecode ==
    /\ input \in DecodeDocs /\ result = NotCalled
    /\ objs = <<>> /\ calls = <<>> /\ MainIdle

DecodeDocument ==
    /\ ~result.called
    /\ result' = Returned(Load(input, 1))
    /\ UNCHANGED <<input, objs, calls, mainVars>>

NextDecode == DecodeDocument

SpecDecode == InitDecode /\ [][NextDecode]_vars

(***************************************************************************)
(* Study of Bundle.__add__: three Bundle objects, folded in the two ways.  *)
(***************************************************************************)
MergeItems ==
    { Item("files", Scalar(KeyA)),
      Item("files", Mapping(KeyA, State("absent"))),
      Item("files", Scalar(KeyStar)),
      Item("files", Mapping(KeyStar, State("from-host") @@ ("mode" :> Raw("int", 420)))),
      Item("files", Mapping(KeyStar, State("from-target"))),
      Item("files", Mapping(KeyStar, State("from-target") @@ ("mode" :> Raw("int", 420)))),
      Item("packages", Scalar(KeyRelA)),
      Item("packages", Mapping(KeyRelA, State("absent"))),
      Item("users", Scalar(KeyRelA)),
      Item("users", Mapping(KeyRelA, State("absent"))) }

MergeBundles == {Load(ToDoc(f), 1).bundle : f \in SeqsUpTo(MergeItems, MaxMergeElems)}

Operands == {"A", "B", "C"}

\* (A + B) + C and A + (B + C), as the calls each makes
Schedules ==
    { << <<"A", "B">>, <<"A", "C">> >>, << <<"B", "C">>, <<"A", "B">> >> }

InitMerge ==
    /\ \E a, b, c \in MergeBundles : objs = [o \in Operands |-> IF o = "A" THEN a ELSE IF o = "B" THEN b ELSE c]
    /\ input = objs /\ result = NotCalled /\ calls = <<>> /\ MainIdle

\* x + y: x is updated in place and returned
AddCall(x, y) ==
    /\ \E sch \in Schedules :
          Len(calls) < Len(sch) /\ SubSeq(sch, 1, Len(calls) + 1) = Append(calls, <<x, y>>)
    /\ objs' = [objs EXCEPT ![x] = Add(objs[x], objs[y])]
    /\ calls' = Append(calls, <<x, y>>)
    /\ result' = Returned(x)
    /\ UNCHANGED <<input, mainVars>>

NextMerge == \E x, y \in Operands : AddCall(x, y)

SpecMerge == InitMerge /\ [][NextMerge]_vars

(***************************************************************************)
(* __main__: load and merge the manifests, then write_out(iter_files()).   *)
(* pc: "load" (folding manifests), "next" (write_out asks the generator    *)
(* for a pair), "body" (write_out holds a pair), "done", "failed" (an      *)
(* exception left __main__).                                               *)
(***************************************************************************)
MainItems ==
    { Item("files", Scalar(KeyA)),
      Item("files", Mapping(KeyA, State("absent"))),
      Item("files", Mapping(KeyA, State("from-target"))),
      Item("files", Mapping(KeyB, State("directory"))),
      Item("files", Scalar(KeyStar)),
      Item("files", Mapping(KeyStar, State("from-host") @@ ("mode" :> Raw("int", 420)))),
      Item("files", Mapping(KeyStar, State("from-target"))),
      Item("files", Scalar(KeyQuery)),
      Item("files", Mapping(KeyB, State("directory") @@ ("mode" :> Raw("str", "rwx")))) }

\* the manifests of the command line hold at most MaxElems elements between them
MainDocs(n) == {ToDoc(f) : f \in SeqsUpTo(MainItems, n)}

RECURSIVE Size(_)
Size(doc) == IF doc = <<>> THEN 0 ELSE Len(Head(doc).items) + Size(Tail(doc))

Init ==
    /\ pc = "load" /\ bundle = EmptyBundle /\ nloaded = 0 /\ ndecoded = 0 /\ host = NoHost
    /\ sorted = <<>> /\ pos = 0 /\ yielded = NoPair /\ handles = {}
    /\ archive = <<>> /\ trail = <<>> /\ log = <<>>
    /\ input = <<>> /\ result = NotCalled /\ objs = <<>> /\ calls = <<>>

pureVars == <<input, result, objs, calls>>

iterVars == <<host, sorted, pos, yielded, handles, archive, trail>>

\* bundle += load(path / 'manifest.yaml'), for the next manifest of the command line
LoadManifest(doc) ==
    /\ pc = "load" /\ nloaded < MaxBundles
    /\ ndecoded' = ndecoded + Size(doc)
    /\ LET loaded == Load(doc, nloaded + 1)
       IN  /\ log' = log \o loaded.warnings
           /\ IF loaded.exc = ""
              THEN /\ bundle' = Add(bundle, loaded.bundle)
                   /\ nloaded' = nloaded + 1
                   /\ pc' = pc
              ELSE /\ pc' = "failed"
                   /\ UNCHANGED <<bundle, nloaded>>
    /\ UNCHANGED <<iterVars, pureVars>>

\* write_out(bundle.iter_files(), output): the generator is created, not yet run
StartWriteOut ==
    /\ pc = "load" /\ nloaded >= 1
    /\ pc' = "next"
    /\ UNCHANGED <<bundle, nloaded, ndecoded, log, iterVars, pureVars>>

\* the generator reaches the pair at index j: a BundledEntry is entered, anything else yielded as is
YieldAt(s, j, open) ==
    /\ sorted' = s /\ pos' = j
    /\ IF s[j].file.type # "BundledEntry"
       THEN /\ yielded' = s[j] /\ handles' = open /\ pc' = "body"
       ELSE LET source == s[j].file.props["source"]
                exists == source.base \in DOMAIN host' /\ source.rel \in host'[source.base]
            IN  \E kind \in (IF exists THEN NodeKinds ELSE {}) \cup {"missing"} :
                  LET entered == Enter(s[j].file, kind)
                  IN  IF entered.ok
                      THEN /\ yielded' = [path |-> s[j].path, file |-> entered.val]
                           /\ handles' = IF kind = "reg" THEN open \cup {source} ELSE open
                           /\ pc' = "body"
                      ELSE /\ yielded' = NoPair /\ handles' = open /\ pc' = "failed"

\* first next(): the globs are expanded against the host, the pairs sorted, uniq started
FirstNext ==
    /\ pc = "next" /\ pos = 0
    /\ \E h \in Hosts :
         /\ host' = h
         /\ LET s == Sorted(Chain(h, bundle))
            IN  IF s = <<>>
                THEN /\ pc' = "failed"
                     /\ UNCHANGED <<sorted, pos, yielded, handles>>
                ELSE YieldAt(s, 1, handles)
    /\ UNCHANGED <<bundle, nloaded, ndecoded, archive, trail, log, pureVars>>

\* __exit__ of the pair the generator is suspended on: its own content handle is closed
Exited == IF sorted[pos].file.type = "BundledEntry"
          THEN handles \ {sorted[pos].file.props["source"]}
          ELSE handles

\* a later next(): the `with` of the last pair is left, uniq moves on, the loop ends when exhausted
LaterNext ==
    /\ pc = "next" /\ pos > 0
    /\ host' = host
    /\ LET j == NextDistinct(sorted, pos)
       IN  IF j = 0
           THEN /\ pc' = "done" /\ handles' = Exited /\ yielded' = NoPair
                /\ UNCHANGED <<sorted, pos>>
           ELSE YieldAt(sorted, j, Exited)
    /\ UNCHANGED <<bundle, nloaded, ndecoded, archive, trail, log, pureVars>>

EncodableNoPipe == {"Device", "Directory", "File", "SymbolicLink"}

\* the record types an isinstance branch of write_out builds a header for
Encodable == {"Device", "Directory", "File", "Pipe", "SymbolicLink"}

EncodeEntryUnsupportedFatal ==
    /\ pc = "body"
    /\ trail' = Append(trail, [path |-> yielded.path, type |-> yielded.file.type])
    /\ IF yielded.file.type = "AbsentResource"
       THEN /\ log' = Append(log, Warning("print", "skipping absent"))
            /\ pc' = "next" /\ archive' = archive
       ELSE IF yielded.file.type \notin Encodable
       THEN /\ pc' = "failed" /\ UNCHANGED <<archive, log>>
       ELSE \E written \in BOOLEAN :
              IF written
              THEN /\ archive' = Append(archive, [name |-> yielded.path,
                                                  type |-> yielded.file.type])
                   /\ pc' = "next" /\ log' = log
              ELSE /\ pc' = "failed" /\ UNCHANGED <<archive, log>>
    /\ UNCHANGED <<bundle, nloaded, ndecoded, host, sorted, pos, yielded, handles, pureVars>>

\* the body of write_out's loop for the pair it holds; tar.addfile may fail on I/O
EncodeEntry ==
    /\ pc = "body"
    /\ trail' = Append(trail, [path |-> yielded.path, type |-> yielded.file.type])
    /\ IF yielded.file.type = "AbsentResource"
       THEN /\ log' = Append(log, Warning("print", "skipping absent"))
            /\ pc' = "next" /\ archive' = archive
       ELSE IF yielded.file.type \notin Encodable
       THEN /\ log' = Append(log, Warning("print", "Unsupported type"))
            /\ pc' = "next" /\ archive' = archive
       ELSE \E written \in BOOLEAN :
              IF written
              THEN /\ archive' = Append(archive, [name |-> yielded.path,
                                                  type |-> yielded.file.type])
                   /\ pc' = "next" /\ log' = log
              ELSE /\ pc' = "failed" /\ UNCHANGED <<archive, log>>
    /\ UNCHANGED <<bundle, nloaded, ndecoded, host, sorted, pos, yielded, handles, pureVars>>

\* the suspended generator is finalized after the failure: GeneratorExit leaves its `with`
CollectGenerator ==
    /\ pc = "failed" /\ pos > 0 /\ yielded # NoPair /\ handles # {}
    /\ handles' = Exited
    /\ yielded' = NoPair
    /\ UNCHANGED <<pc, bundle, nloaded, ndecoded, host, sorted, pos, archive, trail, log, pureVars>>

Next ==
    \/ \E doc \in MainDocs(MaxElems - ndecoded) : LoadManifest(doc)
    \/ StartWriteOut
    \/ FirstNext
    \/ LaterNext
    \/ EncodeEntry
    \/ CollectGenerator

Spec == Init /\ [][Next]_vars

(***************************************************************************)
(* Claims.                                                                 *)
(***************************************************************************)
\* Python's dict ==: the same keys with the same values, whatever the order
DictEq(d, e) == Keys(d) = Keys(e) /\ \A k \in Keys(d) : Lookup(d, k) = Lookup(e, k)

BundleEq(b, c) == \A m \in Mappings : DictEq(b[m], c[m])

\* the value of key k after merging e into d, were the merge right-biased
RightBiased(d, e, k) == IF k \in Keys(e) THEN Lookup(e, k) ELSE Lookup(d, k)

\* C1: folding three Bundles as (A + B) + C leaves in A, mapping by mapping, what
\* A + (B + C) computes from the same three Bundles, and the other way round; and
\* after one merge x + y the keys of x are the union of both key sets, each key
\* present in y carrying y's value.
MergeAssociativeRightBiased ==
    /\ calls = << <<"A", "B">>, <<"A", "C">> >>
          => BundleEq(objs["A"], Add(input["A"], Add(input["B"], input["C"])))
    /\ calls = << <<"B", "C">>, <<"A", "B">> >>
          => BundleEq(objs["A"], Add(Add(input["A"], input["B"]), input["C"]))
    /\ Len(calls) = 1 =>
          LET x == calls[1][1]
              y == calls[1][2]
          IN  \A m \in Mappings :
                /\ Keys(objs[x][m]) = Keys(input[x][m]) \cup Keys(input[y][m])
                /\ \A k \in Keys(objs[x][m]) :
                      Lookup(objs[x][m], k) = RightBiased(input[x][m], input[y][m], k)

\* all three operands hold the same key with B's and C's values differing, both folds done
MergeCollisionFolded ==
    /\ Len(calls) = 2
    /\ \E m \in Mappings : \E k \in Keys(input["A"][m]) :
          /\ k \in Keys(input["B"][m]) /\ k \in Keys(input["C"][m])
          /\ Lookup(input["B"][m], k) # Lookup(input["C"][m], k)
          /\ Lookup(input["A"][m], k) # Lookup(input["C"][m], k)
          /\ Lookup(objs["A"][m], k) = Lookup(input["C"][m], k)

\* the paths iter_files has yielded so far, in order
YieldedPaths ==
    [i \in 1..Len(trail) |-> trail[i].path]
        \o (IF pc = "body" THEN <<yielded.path>> ELSE <<>>)

\* C2: the paths iter_files yields are strictly increasing by components, none twice.
YieldedPathsStrictlyIncreasing ==
    \A i, j \in DOMAIN YieldedPaths :
        i < j => PathLess(YieldedPaths[i], YieldedPaths[j]) /\ YieldedPaths[i] # YieldedPaths[j]

\* a run to the end whose sorted list held a path twice and was not in order before sorting
DuplicatesSortedAway ==
    /\ pc = "done" /\ Len(trail) >= 2
    /\ \E i, j \in DOMAIN sorted : i # j /\ sorted[i].path = sorted[j].path
    /\ Chain(host, bundle) # sorted

\* the glob-derived pairs for path P on the host of the run
GlobMatchesFor(P) ==
    LET expanded == ResolveGlobs(host, bundle.bundled_globs)
    IN  {expanded[i].file : i \in {j \in DOMAIN expanded : expanded[j].path = P}}

\* C3: when files holds an entry for the path of the yielded pair, the pair is that
\* entry (entered, if it is a BundledEntry), whatever globs match the path.
ExplicitEntryWins ==
    (pc = "body" /\ HasKey(bundle.files, yielded.path)) =>
        LET explicit == Lookup(bundle.files, yielded.path)
        IN  /\ sorted[pos].file = explicit
            /\ IF explicit.type = "BundledEntry"
               THEN \E kind \in NodeKinds :
                        Enter(explicit, kind).ok /\ yielded.file = Enter(explicit, kind).val
               ELSE yielded.file = explicit

\* an explicit entry of the second manifest is yielded although a glob of the first
\* manifest matches its path with another record
ExplicitOverEarlierGlob ==
    /\ pc = "body" /\ HasKey(bundle.files, yielded.path)
    /\ Lookup(bundle.files, yielded.path).type = "BundledEntry"
    /\ Lookup(bundle.files, yielded.path).props["source"].base = 2
    /\ \E g \in GlobMatchesFor(yielded.path) :
          g.props["source"].base = 1 /\ g # Lookup(bundle.files, yielded.path)

AbsentPaths ==
    {k \in Keys(bundle.files) : Lookup(bundle.files, k).type = "AbsentResource"}

\* manifest X declares /a from-host next to the glob /*, manifest Y declares /a
\* absent: X, then Y, folded as __main__ folds them
FromHostThenAbsent ==
    Add(Add(EmptyBundle,
            Load(ToDoc(<<Item("files", Scalar(KeyA)), Item("files", Scalar(KeyStar))>>), 1).bundle),
        Load(ToDoc(<<Item("files", Mapping(KeyA, State("absent")))>>), 2).bundle)

\* C4: a path the merged files mapping declares absent is yielded as AbsentResource
\* and gets no archive header, also when a bundled glob matches it on the host;
\* from-host in X, then absent in Y, merges to absent.
AbsentNeverEmitted ==
    /\ Lookup(FromHostThenAbsent.files, PurePosixPath(KeyA)) = AbsentResource
    /\ pc # "load" =>
        \A P \in AbsentPaths :
            /\ \A i \in DOMAIN archive : archive[i].name # P
            /\ \A i \in DOMAIN trail : trail[i].path = P => trail[i].type = "AbsentResource"
            /\ (pc = "body" /\ yielded.path = P) => yielded.file = AbsentResource

\* two manifests merged, the path absent in files and matched by a glob on the host,
\* the run finished with the path consumed and another header written
AbsentSkippedDespiteGlob ==
    /\ pc = "done" /\ nloaded = 2 /\ ndecoded = 3
    /\ bundle = FromHostThenAbsent
    /\ \E P \in AbsentPaths :
          /\ GlobMatchesFor(P) # {}
          /\ \E i \in DOMAIN trail : trail[i].path = P
    /\ archive # <<>>

\* C6: a content handle is open only during the step of its own entry: never two
\* at once, none once the run has ended, by success or by failure.
HandlesClosedOnEveryExit ==
    /\ Cardinality(handles) <= 1
    /\ pc \in {"done", "failed"} => handles = {}
    /\ (pc \in {"body", "next"} /\ handles # {}) =>
          /\ pos > 0 /\ sorted[pos].file.type = "BundledEntry"
          /\ handles = {sorted[pos].file.props["source"]}

Unsupported(type) == type \notin Encodable \cup {"AbsentResource"}

RECURSIVE WellFormedItems(_, _, _)
WellFormedItems(key, items, root) ==
    IF items = <<>> THEN <<>>
    ELSE (IF ConstructItem(key, Head(items), root).status = "ok" THEN <<Head(items)>> ELSE <<>>)
            \o WellFormedItems(key, Tail(items), root)

\* the document without its malformed elements
WellFormedOnly(doc, root) ==
    [i \in DOMAIN doc |->
        IF doc[i].keyScalar /\ doc[i].isSeq /\ doc[i].key \in {"files", "packages", "users"}
        THEN [doc[i] EXCEPT !.items = WellFormedItems(doc[i].key, @, root)]
        ELSE doc[i]]

\* C5: a malformed element never aborts the document: load returns a Bundle, and it
\* is the Bundle of the document's other elements.
MalformedElementNeverAborts ==
    result.called =>
        /\ result.val.exc = ""
        /\ result.val.bundle = Load(WellFormedOnly(input, 1), 1).bundle

\* C8 as stated: a key is a pattern exactly when it contains `*`, `?` or `[`.
PatternIffStarQueryOpen ==
    result.called =>
        (result.val.kind = "str" <=> \E c \in {"*", "?", "["} : Contains(input, c))

\* C8 as amended: a key is a pattern (a str) exactly when it contains `*`, `?`, `[`
\* or `]`, and a literal path (a PurePosixPath) otherwise.
PatternIffStarQueryBracket ==
    result.called =>
        /\ result.val.kind \in {"str", "path"}
        /\ result.val.kind = "str" <=> \E c \in {"*", "?", "[", "]"} : Contains(input, c)

\* a key whose only special character is `]` was parsed, as a pattern
ClosingBracketAlonePattern ==
    /\ result.called /\ result.val.kind = "str"
    /\ Contains(input, "]")
    /\ ~\E c \in {"*", "?", "["} : Contains(input, c)

\* the files elements of a document, in order
RECURSIVE FilesElements(_)
FilesElements(doc) ==
    IF doc = <<>> THEN <<>>
    ELSE (IF Head(doc).keyScalar /\ Head(doc).isSeq /\ Head(doc).key = "files"
          THEN Head(doc).items ELSE <<>>) \o FilesElements(Tail(doc))

DecodedFiles(doc, root) ==
    [i \in DOMAIN FilesElements(doc) |-> ConstructFile(FilesElements(doc)[i], root)]

GlobbingWarning ==
    Warning("FileOmittedWarning", "globbing with literal files is not supported yet")

\* C9: literal identities are the keys of files, patterns with a BundledEntry those
\* of bundled_globs, patterns with a RemoteEntry those of remote_globs, each with the
\* record of its last pair; a pattern with another record gets a diagnostic only.
RoutedByIdentityAndRecord ==
    (result.called /\ result.val.exc = "") =>
        LET made == DecodedFiles(input, 1)
            ok == {i \in DOMAIN made : made[i].status = "ok"}
            lit == {i \in ok : made[i].id.kind = "path"}
            bg == {i \in ok \ lit : made[i].rec.type = "BundledEntry"}
            rg == {i \in ok \ lit : made[i].rec.type = "RemoteEntry"}
            dropped == ok \ (lit \cup bg \cup rg)
            b == result.val.bundle
            IsLast(S, i) == \A j \in S : j > i => made[j].id # made[i].id
        IN  /\ Keys(b.files) = {made[i].id.path : i \in lit}
            /\ Keys(b.bundled_globs) = {made[i].id.str : i \in bg}
            /\ Keys(b.remote_globs) = {made[i].id.str : i \in rg}
            /\ \A i \in lit : IsLast(lit, i) => Lookup(b.files, made[i].id.path) = made[i].rec
            /\ \A i \in bg : IsLast(bg, i) => Lookup(b.bundled_globs, made[i].id.str) = made[i].rec
            /\ \A i \in rg : IsLast(rg, i) => Lookup(b.remote_globs, made[i].id.str) = made[i].rec
            /\ Cardinality({k \in DOMAIN result.val.warnings :
                               result.val.warnings[k] = GlobbingWarning})
                  = Cardinality(dropped)

\* a document with a pattern on an inline record and a pattern on a RemoteEntry
PatternDroppedAndPatternRouted ==
    /\ result.called /\ result.val.exc = ""
    /\ \E i, j \in DOMAIN DecodedFiles(input, 1) :
          LET made == DecodedFiles(input, 1)
          IN  /\ made[i].status = "ok" /\ made[j].status = "ok"
              /\ made[i].id.kind = "str" /\ made[j].id.kind = "str"
              /\ made[i].rec.type \notin {"BundledEntry", "RemoteEntry"}
              /\ made[j].rec.type = "RemoteEntry"
    /\ result.val.bundle.remote_globs # <<>>
    /\ GlobbingWarning \in {result.val.warnings[k] : k \in DOMAIN result.val.warnings}

\* C10: a non-absolute key gets `/` in front and exactly one diagnostic, an absolute
\* key comes back unchanged without one, and the identity returned is absolute.
RelativeKeyCoerced ==
    /\ ParsePathNode(<<"a", "/", "b">>).path = PurePosixPath(<<"/", "a", "/", "b">>)
    /\ result.called =>
        LET absolute == IF result.val.kind = "str" THEN StartsWithSlash(input)
                        ELSE IsAbsolute(PurePosixPath(input))
            expected == IF absolute THEN input ELSE <<"/">> \o input
        IN  /\ result.val.warnings = IF absolute THEN <<>> ELSE <<NotAbsoluteWarning>>
            /\ IF result.val.kind = "str"
               THEN result.val.str = expected /\ StartsWithSlash(result.val.str)
               ELSE result.val.path = PurePosixPath(expected) /\ IsAbsolute(result.val.path)

\* a relative literal path of two components was parsed
RelativeLiteralParsed ==
    /\ result.called /\ result.val.kind = "path"
    /\ ~StartsWithSlash(input)
    /\ Len(result.val.path.parts) = 2
    /\ result.val.warnings # <<>>

\* the first expected property that is unconditionally required and absent (0: none)
FirstMissing(expected, nodeProps) ==
    LET missing == {k \in DOMAIN expected :
                       expected[k].required = "True" /\ expected[k].name \notin DOMAIN nodeProps}
    IN  IF missing = {} THEN 0 ELSE CHOOSE k \in missing : \A m \in missing : k <= m

MissingWarning(name) ==
    [category |-> "FileOmittedWarning", problem |-> "required property not found",
     subject |-> name, mark |-> "element"]

\* the files elements whose decoding reaches an absent required property `name`
LackingRequired(doc, name) ==
    {i \in DOMAIN FilesElements(doc) :
        LET node == FilesElements(doc)[i]
            props == IF node.shape = "mapping" THEN node.props ELSE NoProps
        IN  /\ node.shape \in {"scalar", "mapping"}
            /\ "state" \in DOMAIN props => props["state"].val \in DOMAIN files_spec.states
            /\ LET type == IF "state" \in DOMAIN props
                           THEN files_spec.states[props["state"].val] ELSE "BundledEntry"
                   expected == ApplicableProps(files_spec.properties, type)
                   k == FirstMissing(expected, props)
               IN  /\ k > 0 /\ expected[k].name = name
                   /\ \A j \in 1..(k - 1) :
                         ApplyConstructor(expected[j].constructor, props[expected[j].name]).ok}

\* C11: an absent unconditionally required property is a ConstructorError naming the
\* property at the element's mark; an absent property with a fallback is synthesized
\* from the identity; an absent optional property is left out.
RequiredPropertyMissingIsDecodeError ==
    result.called =>
        LET made == DecodedFiles(input, 1)
            nodes == FilesElements(input)
        IN  /\ \A name \in {"content", "kind", "minor", "major"} :
                  /\ \A i \in LackingRequired(input, name) :
                        /\ made[i].status = "ConstructorError"
                        /\ made[i].error = Detail("required property not found", name, "element")
                  /\ result.val.exc = "" =>
                        Cardinality({k \in DOMAIN result.val.warnings :
                                        result.val.warnings[k] = MissingWarning(name)})
                            = Cardinality(LackingRequired(input, name))
            /\ \A i \in DOMAIN made :
                  made[i].status = "ok" =>
                      LET given == IF nodes[i].shape = "mapping" THEN DOMAIN nodes[i].props ELSE {}
                          rec == made[i].rec
                          id == made[i].id
                      IN  /\ \A name \in {"content", "kind", "minor", "major"} :
                                 i \notin LackingRequired(input, name)
                          /\ \A name \in EntryKeywords \ given : name \notin DOMAIN rec.props
                          /\ (rec.type = "BundledEntry" /\ "source" \notin given) =>
                                rec.props["source"] =
                                    HostPath(1, IF id.kind = "path" THEN id.path.parts ELSE <<>>)
                          /\ (rec.type = "RemoteEntry" /\ "source" \notin given) =>
                                rec.props["source"] =
                                    IF id.kind = "path" THEN id.path ELSE PurePosixPath(id.str)

\* a document with a file element lacking content and a bare path, decoded
ContentMissingReported ==
    /\ result.called /\ result.val.exc = ""
    /\ LackingRequired(input, "content") # {}
    /\ MissingWarning("content") \in {result.val.warnings[k] : k \in DOMAIN result.val.warnings}
    /\ \E i \in DOMAIN DecodedFiles(input, 1) :
          /\ DecodedFiles(input, 1)[i].status = "ok"
          /\ DecodedFiles(input, 1)[i].rec.type = "BundledEntry"

\* the properties the table marks unconditionally required for a type
RequiredNames(type) ==
    LET expected == ApplicableProps(files_spec.properties, type)
    IN  {expected[k].name : k \in {j \in DOMAIN expected : expected[j].required = "True"}}

\* C12: a files element that declares a state of the discriminator map and supplies
\* the properties required for the mapped type decodes, without error, to a record of
\* that type; a device element with kind, major and minor gives a Device.
DeclaredStateDecodes ==
    result.called =>
        \A i \in DOMAIN FilesElements(input) :
            LET node == FilesElements(input)[i]
                made == DecodedFiles(input, 1)[i]
            IN  (/\ node.shape = "mapping"
                 /\ "state" \in DOMAIN node.props
                 /\ node.props["state"].val \in DOMAIN files_spec.states
                 /\ DOMAIN node.props \ {"state"}
                        = RequiredNames(files_spec.states[node.props["state"].val]))
                => /\ made.status = "ok"
                   /\ made.rec.type = files_spec.states[node.props["state"].val]

(***************************************************************************)
(* Study of _resolve_globs and BundledEntry.__enter__: one template, one   *)
(* pattern, one host tree; the matches are expanded, then entered in turn. *)
(***************************************************************************)
GlobPositions == { <<NameA>>, <<NameB>>, <<NameA, NameA>>, <<NameA, NameB>> }

GlobPatterns == { KeyStar, KeyQuery, <<"/", "*", "/", "*">>, <<"/", "a", "/", "?">> }

DeclaredMetadata ==
    { [n \in names |-> CASE n = "mode" -> 420
                         [] n = "atime" -> <<7, 9>>
                         [] n = "owner" -> [name |-> "u", id |-> 0]] :
        names \in SUBSET {"mode", "atime", "owner"} }

GlobTemplates ==
    { [type |-> "BundledEntry", props |-> ("source" :> HostPath(1, rel)) @@ meta] :
        rel \in {<<>>, <<NameA>>}, meta \in DeclaredMetadata }

InitGlob ==
    /\ input \in [template : GlobTemplates, pattern : GlobPatterns]
    /\ host \in [{1} -> SUBSET GlobPositions]
    /\ result = NotCalled /\ objs = <<>> /\ calls = <<>>
    /\ pc = "idle" /\ bundle = EmptyBundle /\ nloaded = 0 /\ ndecoded = 0
    /\ sorted = <<>> /\ pos = 0 /\ yielded = NoPair /\ handles = {}
    /\ archive = <<>> /\ trail = <<>> /\ log = <<>>

\* list(_resolve_globs({pattern: template}))
ExpandTemplate ==
    /\ ~result.called
    /\ result' = Returned(ExpandGlob(host, input.pattern, input.template))
    /\ UNCHANGED <<input, objs, calls, mainVars>>

\* `with file as resolved` on the next expanded entry, lstat reporting any node kind
\* (calls keeps the kinds reported)
ResolveMatch ==
    /\ result.called /\ Len(objs) < Len(result.val)
    /\ \E kind \in NodeKinds :
          /\ objs' = Append(objs, Enter(result.val[Len(objs) + 1].file, kind))
          /\ calls' = Append(calls, kind)
    /\ UNCHANGED <<input, result, mainVars>>

NextGlob == ExpandTemplate \/ ResolveMatch

SpecGlob == InitGlob /\ [][NextGlob]_vars

\* C13: n matches below the template's source expand to n BundledEntry pairs with
\* distinct absolute paths, each on its matched host path; once entered each carries
\* the template's declared metadata and takes atime/mtime from the host only where
\* the template declares none.
GlobExpansionInheritsTemplate ==
    result.called =>
        LET template == input.template
            source == template.props["source"]
            matched == Glob(host, source, LStripSlash(input.pattern))
            expanded == result.val
        IN  /\ Len(expanded) = Cardinality(matched)
            /\ \A i, j \in DOMAIN expanded : i # j => expanded[i].path # expanded[j].path
            /\ \A i \in DOMAIN expanded :
                  /\ expanded[i].path.root = 1
                  /\ source.rel \o expanded[i].path.parts \in matched
                  /\ expanded[i].file.type = "BundledEntry"
                  /\ expanded[i].file.props["source"]
                        = HostPath(source.base, source.rel \o expanded[i].path.parts)
            /\ \A i \in DOMAIN objs :
                  objs[i].ok =>
                      /\ \A n \in DOMAIN template.props \cap EntryKeywords :
                            objs[i].val.props[n] = template.props[n]
                      /\ \A t \in {"atime", "mtime"} \ DOMAIN template.props :
                            objs[i].val.props[t] = StatTime

\* two matches below a declared source directory, expanded and entered, the template
\* declaring mode and atime but no mtime
TwoMatchesEntered ==
    /\ result.called /\ Len(result.val) = 2 /\ Len(objs) = 2
    /\ objs[1].ok /\ objs[2].ok
    /\ input.template.props["source"].rel # <<>>
    /\ {"mode", "atime"} \subseteq DOMAIN input.template.props
    /\ "mtime" \notin DOMAIN input.template.props

(***************************************************************************)
(* __main__ on a given command line: input holds the manifests in order,   *)
(* objs the Bundle load returned for each, bundle the cumulative Bundle.   *)
(***************************************************************************)
FoldItems ==
    { Item("files", Scalar(KeyStar)),
      Item("files", Mapping(KeyStar, State("from-host") @@ ("mode" :> Raw("int", 420)))),
      Item("files", Scalar(KeyQuery)),
      Item("files", Mapping(KeyA, State("absent"))) }

FoldInputs ==
    {[k \in DOMAIN f |-> ToDoc(<<f[k]>>)] : f \in SeqsUpTo(FoldItems, MaxManifests) \ {<<>>}}

InitFold ==
    /\ input \in FoldInputs /\ objs = <<>> /\ result = NotCalled /\ calls = <<>>
    /\ pc = "load" /\ bundle = EmptyBundle /\ nloaded = 0 /\ ndecoded = 0 /\ host = NoHost
    /\ sorted = <<>> /\ pos = 0 /\ yielded = NoPair /\ handles = {}
    /\ archive = <<>> /\ trail = <<>> /\ log = <<>>

LoadNextDraining ==
    /\ pc = "load" /\ nloaded < Len(input)
    /\ ndecoded' = ndecoded + Size(input[nloaded + 1])
    /\ LET Merge(loaded) ==
              /\ log' = log \o loaded.warnings
              /\ IF loaded.exc = ""
                 THEN /\ objs' = Append(objs, EmptyBundle)
                      /\ bundle' = Add(bundle, loaded.bundle)
                      /\ result' = Returned("self")
                      /\ nloaded' = nloaded + 1
                      /\ pc' = pc
                 ELSE /\ pc' = "failed"
                      /\ UNCHANGED <<bundle, nloaded, objs, result>>
       IN  Merge(Load(input[nloaded + 1], nloaded + 1))
    /\ UNCHANGED <<iterVars, input, calls>>

\* bundle += load(path / 'manifest.yaml') for the next path of args.bundles: __add__
\* updates the object named bundle and returns it (result), the loaded Bundle is kept
LoadNext ==
    /\ pc = "load" /\ nloaded < Len(input)
    /\ ndecoded' = ndecoded + Size(input[nloaded + 1])
    /\ LET Merge(loaded) ==
              /\ log' = log \o loaded.warnings
              /\ IF loaded.exc = ""
                 THEN /\ objs' = Append(objs, loaded.bundle)
                      /\ bundle' = Add(bundle, loaded.bundle)
                      /\ result' = Returned("self")
                      /\ nloaded' = nloaded + 1
                      /\ pc' = pc
                 ELSE /\ pc' = "failed"
                      /\ UNCHANGED <<bundle, nloaded, objs, result>>
       IN  Merge(Load(input[nloaded + 1], nloaded + 1))
    /\ UNCHANGED <<iterVars, input, calls>>

\* write_out(bundle.iter_files(), output) once every manifest is folded in
StartAfterFold == nloaded = Len(input) /\ StartWriteOut

NextFold ==
    \/ LoadNext
    \/ StartAfterFold
    \/ FirstNext
    \/ LaterNext
    \/ EncodeEntry
    \/ CollectGenerator

SpecFold == InitFold /\ [][NextFold]_vars

\* the manifests whose Bundle declares the bundled glob `pattern`
Declaring(pattern) == {k \in DOMAIN objs : HasKey(objs[k].bundled_globs, pattern)}

\* the match for path P among the pairs a glob declaration expands to (as a set)
MatchOf(pattern, template, P) ==
    LET expanded == ExpandGlob(host, pattern, template)
    IN  {expanded[i] : i \in {j \in DOMAIN expanded : expanded[j].path = P}}

\* the manifests one of whose glob declarations matches P on the host
Contributors(P) ==
    {k \in DOMAIN objs :
        \E i \in DOMAIN objs[k].bundled_globs :
            MatchOf(objs[k].bundled_globs[i].k, objs[k].bundled_globs[i].v, P) # {}}

Least(S) == CHOOSE k \in S : \A m \in S : k <= m

Greatest(S) == CHOOSE k \in S : \A m \in S : k >= m

\* C14 as stated: without an explicit entry for P, the pair yielded for P is the match
\* of the earliest-merged bundle among those whose glob declarations match P.
EarliestBundleMatchWins ==
    (pc = "body" /\ ~HasKey(bundle.files, yielded.path)) =>
        LET first == objs[Least(Contributors(yielded.path))].bundled_globs
        IN  \E i \in DOMAIN first :
                sorted[pos] \in MatchOf(first[i].k, first[i].v, yielded.path)

\* the declared patterns whose template in force matches P
Candidates(P) ==
    {pattern \in UNION {Keys(objs[k].bundled_globs) : k \in DOMAIN objs} :
        MatchOf(pattern, Lookup(objs[Greatest(Declaring(pattern))].bundled_globs, pattern), P)
            # {}}

\* C14 as amended: the pair yielded for P is the match of the pattern first declared
\* by the earliest-merged bundle, expanded with the template of the latest-merged
\* bundle that declares that pattern.
EarliestPatternLatestTemplateWins ==
    (pc = "body" /\ ~HasKey(bundle.files, yielded.path)) =>
        LET P == yielded.path
            winner == CHOOSE pattern \in Candidates(P) :
                         \A other \in Candidates(P) :
                             Least(Declaring(pattern)) <= Least(Declaring(other))
        IN  /\ Candidates(P) # {}
            /\ sorted[pos] \in
                  MatchOf(winner, Lookup(objs[Greatest(Declaring(winner))].bundled_globs, winner), P)

\* manifests 1 and 3 declare /*, manifest 2 declares /?, and the pair for /a on the
\* host comes from manifest 3's template
SamePatternRedeclared ==
    /\ pc = "body" /\ nloaded = 3 /\ ~HasKey(bundle.files, yielded.path)
    /\ Declaring(KeyStar) = {1, 3} /\ Declaring(KeyQuery) = {2}
    /\ objs[1].bundled_globs # objs[3].bundled_globs
    /\ sorted[pos].file.props["source"].base = 3

\* C15: entering a BundledEntry splits on the node kind lstat reports: a regular file
\* gives a File on the source with the length of the status, a block or character
\* device a Device of that kind with the host's numbers, a directory a Directory, a
\* pipe a Pipe, a link a SymbolicLink to its target; any other kind raises and gives
\* no record.
ResolutionCaseSplit ==
    \A i \in DOMAIN objs :
        LET kind == calls[i]
            entered == objs[i]
            source == result.val[i].file.props["source"]
        IN  CASE kind = "reg" ->
                    /\ entered.ok /\ entered.val.type = "File"
                    /\ entered.val.props["content"] = source
                    /\ entered.val.props["length"] = 2
              [] kind \in {"blk", "chr"} ->
                    /\ entered.ok /\ entered.val.type = "Device"
                    /\ entered.val.props["kind"] = (IF kind = "blk" THEN "b" ELSE "c")
                    /\ entered.val.props["devmajor"] = 8
                    /\ entered.val.props["devminor"] = 1
              [] kind = "dir" -> entered.ok /\ entered.val.type = "Directory"
              [] kind = "fifo" -> entered.ok /\ entered.val.type = "Pipe"
              [] kind = "lnk" ->
                    /\ entered.ok /\ entered.val.type = "SymbolicLink"
                    /\ entered.val.props["destination"] = PurePosixPath(KeyB)
              [] OTHER -> ~entered.ok /\ entered.exc = "TypeError"

\* a character device entered, then a socket
DeviceThenSocketEntered ==
    /\ calls = <<"chr", "sock">>
    /\ Len(objs) = 2 /\ objs[1].ok /\ ~objs[2].ok

\* the headers the consumed pairs call for, in the order of consumption
HeadersDue ==
    LET due == SelectSeq(trail, LAMBDA pair :
                   pair.type \in {"Directory", "Pipe", "Device", "SymbolicLink", "File"})
    IN  [i \in DOMAIN due |-> [name |-> due[i].path, type |-> due[i].type]]

\* C16: the archive holds one header per consumed pair of type Directory, Pipe,
\* Device, SymbolicLink or File and none for another pair, in the order the pairs were
\* consumed, named by the pair's path; a failed write ends the run at its pair.
HeadersFollowConsumption ==
    \/ archive = HeadersDue
    \/ /\ pc = "failed" /\ HeadersDue # <<>>
       /\ archive = SubSeq(HeadersDue, 1, Len(HeadersDue) - 1)
       /\ HeadersDue[Len(HeadersDue)].name = trail[Len(trail)].path

\* a run to the end that wrote a pipe and then a header of another type
TwoHeadersInOrder ==
    /\ pc = "done" /\ Len(trail) = 2 /\ Len(archive) = 2
    /\ archive[1].type = "Pipe" /\ archive[2].type # "Pipe"

\* the paths below manifest root 1 a remote glob pattern would match on the host
RemoteWouldMatch ==
    UNION {{JoinPath(RootPath, [root |-> 0, parts |-> p]) :
               p \in Glob(host, HostPath(1, <<>>), LStripSlash(bundle.remote_globs[i].k))} :
           i \in DOMAIN bundle.remote_globs}

\* C17: remote_globs has no part in resolution: the sorted pairs are those of the
\* Bundle with remote_globs emptied, a RemoteEntry among them is an explicit files
\* entry, and every header is named by a files key or a bundled glob match.
RemoteGlobsUnconsumed ==
    pos > 0 =>
        LET emptied == [bundle EXCEPT !.remote_globs = <<>>]
            expanded == ResolveGlobs(host, bundle.bundled_globs)
        IN  /\ sorted = Sorted(Chain(host, emptied))
            /\ \A i \in DOMAIN sorted :
                  sorted[i].file.type = "RemoteEntry" =>
                      /\ HasKey(bundle.files, sorted[i].path)
                      /\ Lookup(bundle.files, sorted[i].path) = sorted[i].file
            /\ \A i \in DOMAIN archive :
                  archive[i].name \in Keys(bundle.files)
                                        \cup {expanded[j].path : j \in DOMAIN expanded}

\* a run to the end that wrote a header while a remote glob matched, on the host,
\* a path that was never yielded
RemoteMatchIgnored ==
    /\ pc = "done" /\ archive # <<>>
    /\ \E P \in RemoteWouldMatch : \A i \in DOMAIN trail : trail[i].path # P

\* C18: a Bundle that contributes no pair to resolution is iterated to a normal end,
\* and the run ends with an archive without entries.
EmptyResolutionEndsNormally ==
    (host # NoHost /\ Chain(host, bundle) = <<>>) =>
        /\ pc = "done"
        /\ archive = <<>> /\ trail = <<>>

\* the cumulative Bundle after the first n loaded Bundles are folded in
RECURSIVE Folded(_)
Folded(n) == IF n = 0 THEN EmptyBundle ELSE Add(Folded(n - 1), Load(input[n], n).bundle)

\* C19: a merge updates the cumulative Bundle in place and returns it, every Bundle
\* merged in stays as load returned it, and iter_files leaves the five mappings of
\* the Bundle it resolves as the merges left them.
MergeAndIterationFrame ==
    /\ Len(objs) = nloaded
    /\ \A k \in DOMAIN objs : objs[k] = Load(input[k], k).bundle
    /\ bundle = Folded(nloaded)
    /\ result.called => result.val = "self"
    /\ pc \in {"next", "body", "done"} => nloaded = Len(input)

\* three manifests folded, the third redeclaring the first one's pattern, and the
\* merged Bundle iterated to the end with a header written
FoldedThenIterated ==
    /\ pc = "done" /\ nloaded = 3 /\ archive # <<>>
    /\ Keys(objs[1].bundled_globs) = Keys(objs[3].bundled_globs)
    /\ objs[1].bundled_globs # <<>>
    /\ objs[1] # objs[3]
    /\ bundle # objs[3]

(***************************************************************************)
(* Study of the pax time records of write_out: one (seconds, nanoseconds)  *)
(* pair, formatted as f'{s}.{ns}'.  Text is a sequence of characters.      *)
(***************************************************************************)
DigitChar(d) == <<"0", "1", "2", "3", "4", "5", "6", "7", "8", "9">>[d + 1]

\* format of a non-negative int in an f-string: its decimal digits, no padding
RECURSIVE Digits(_)
Digits(n) == IF n < 10 THEN <<DigitChar(n)>> ELSE Digits(n \div 10) \o <<DigitChar(n % 10)>>

\* f'{file.atime[0]}.{file.atime[1]}'
PaxTime(time) == Digits(time[1]) \o <<".">> \o Digits(time[2])

TimeNanos == {0, 5, 7, 50, 1000, 100000000, 123456789, 500000000, 999999999}

InitTime ==
    /\ input \in (0..MaxSeconds) \X TimeNanos
    /\ result = NotCalled /\ objs = <<>> /\ calls = <<>> /\ MainIdle

\* pax_headers['atime'] = ... for an entry whose atime is input
FormatTime ==
    /\ ~result.called
    /\ result' = Returned(PaxTime(input))
    /\ UNCHANGED <<input, objs, calls, mainVars>>

NextTime == FormatTime

SpecTime == InitTime /\ [][NextTime]_vars

\* the number a string of decimal digits denotes
RECURSIVE Number(_)
Number(digits) ==
    IF digits = <<>> THEN 0
    ELSE 10 * Number(SubSeq(digits, 1, Len(digits) - 1))
            + (CHOOSE d \in 0..9 : DigitChar(d) = digits[Len(digits)])

RECURSIVE PowerOfTen(_)
PowerOfTen(k) == IF k = 0 THEN 1 ELSE 10 * PowerOfTen(k - 1)

DotAt(text) == CHOOSE i \in DOMAIN text : text[i] = "."

\* the fraction digits of a decimal record, in nanoseconds (at most nine digits)
FractionNanos(text) ==
    LET fraction == SubSeq(text, DotAt(text) + 1, Len(text))
    IN  Number(fraction) * PowerOfTen(9 - Len(fraction))

\* C20: the atime/mtime record, read as a decimal number, denotes s + n/10^9: its
\* integer part is s and its fraction digits stand for n nanoseconds.
PaxTimeDenotesTime ==
    result.called =>
        /\ Number(SubSeq(result.val, 1, DotAt(result.val) - 1)) = input[1]
        /\ Len(result.val) - DotAt(result.val) <= 9
        /\ FractionNanos(result.val) = input[2]

====
